---- MODULE Spec2Model ----
(***************************************************************************)
(* Model of the emissions pipeline scripts:                                *)
(*   scripts/01_historical_scopes.py  (the Scope 1/2/3 calculator)         *)
(*   scripts/02_example_next_step.py  (pass-through downstream step)       *)
(*   scripts/00_TEMPLATE.py           (template downstream step)           *)
(* Every script is a straight-line program; each of its STEP sections is   *)
(* one action.  The file system persists between runs.                     *)
(*                                                                         *)
(* Cell values are extended rationals <<n, d>>:                            *)
(*   d > 0   the number n/d in lowest terms                                *)
(*   <<0,0>> NaN (a missing cell, or 0/0, or inf-inf)                      *)
(*   <<1,0>> +inf, <<-1,0>> -inf  (x/0 in pandas/numpy arithmetic)         *)
(*   <<0,-1>> a non-numeric (text) cell                                    *)
(* Arithmetic is exact; IEEE rounding of doubles is not modelled.          *)
(***************************************************************************)
EXTENDS Integers, Sequences, FiniteSets, TLC

VARIABLES
    fs,       \* the files: path -> table, directory, or absent
    script,   \* the script of the current (or last) run
    pc,       \* the STEP the run is at, or how it ended
    df,       \* the run's DataFrame
    console,  \* what the run printed for the operator
    err,      \* the exception or exit that ended the run
    written   \* the CSV paths the run has written (history of to_csv)

vars == <<fs, script, pc, df, console, err, written>>

\* Largest number of data rows in the input sheet.
MaxRows == 2

----------------------------------------------------------------------------
\* Extended rational arithmetic (pandas float columns).

NaN == <<0, 0>>
PosInf == <<1, 0>>
NegInf == <<-1, 0>>
Text == <<0, -1>>

Abs(n) == IF n < 0 THEN -n ELSE n

RECURSIVE GCD(_, _)
GCD(a, b) == IF b = 0 THEN a ELSE GCD(b, a % b)

Norm(n, d) ==
    IF n = 0 THEN <<0, 1>>
    ELSE LET g == GCD(Abs(n), d) IN <<n \div g, d \div g>>

Num(n) == <<n, 1>>
Frac(n, d) == Norm(n, d)

IsNaN(x) == x = NaN
IsText(x) == x[2] < 0
IsFin(x) == x[2] > 0
IsInf(x) == x[2] = 0 /\ x[1] # 0
Sign(x) == IF x[1] > 0 THEN 1 ELSE IF x[1] < 0 THEN -1 ELSE 0

Mul(x, y) ==
    IF IsNaN(x) \/ IsNaN(y) THEN NaN
    ELSE IF IsInf(x) \/ IsInf(y)
         THEN (IF Sign(x) * Sign(y) = 0 THEN NaN ELSE <<Sign(x) * Sign(y), 0>>)
    ELSE LET g1 == GCD(Abs(x[1]), y[2])
             g2 == GCD(Abs(y[1]), x[2])
         IN  IF x[1] = 0 \/ y[1] = 0 THEN <<0, 1>>
             ELSE <<(x[1] \div g1) * (y[1] \div g2), (x[2] \div g2) * (y[2] \div g1)>>

Add(x, y) ==
    IF IsNaN(x) \/ IsNaN(y) THEN NaN
    ELSE IF IsInf(x) /\ IsInf(y) THEN (IF x = y THEN x ELSE NaN)
    ELSE IF IsInf(x) THEN x
    ELSE IF IsInf(y) THEN y
    ELSE LET g == GCD(x[2], y[2])
             l == (x[2] \div g) * y[2]
         IN  Norm(x[1] * (l \div x[2]) + y[1] * (l \div y[2]), l)

\* True division of float columns: x/0 is +-inf, 0/0 is NaN, no exception.
Div(x, y) ==
    IF IsNaN(x) \/ IsNaN(y) THEN NaN
    ELSE IF IsInf(y) THEN (IF IsInf(x) THEN NaN ELSE <<0, 1>>)
    ELSE IF y[1] = 0 THEN (IF Sign(x) = 0 THEN NaN ELSE <<Sign(x), 0>>)
    ELSE IF IsInf(x) THEN <<Sign(x) * Sign(y), 0>>
    ELSE Mul(x, <<Sign(y) * y[2], Abs(y[1])>>)

\* x > y on floats; any comparison with NaN is False.
Gt(x, y) ==
    IF IsNaN(x) \/ IsNaN(y) THEN FALSE
    ELSE IF IsInf(x) \/ IsInf(y) THEN
        (IF IsInf(x) /\ IsInf(y) THEN x[1] > y[1]
         ELSE IF IsInf(x) THEN x[1] > 0 ELSE y[1] < 0)
    ELSE LET g == GCD(x[2], y[2])
         IN  x[1] * (y[2] \div g) > y[1] * (x[2] \div g)

Ge0(x) == ~IsNaN(x) /\ ~IsText(x) /\ x[1] >= 0

Range(s) == {s[i] : i \in DOMAIN s}

----------------------------------------------------------------------------
\* Configuration of 01_historical_scopes.py.

INPUT_PATH == "data/Paper_Data.xlsx"
OUTPUT_CSV == "outputs/01_historical_scopes.csv"
OUTPUT_DIR == "outputs"
CALC_EF_IS_PER_CLINKER == TRUE
OVERLOAD_FRAC == Frac(60, 100)
ALLOWED_FRAC == Frac(40, 100)

\* Configuration of 02_example_next_step.py and 00_TEMPLATE.py.
INPUT_CSV_02 == "outputs/01_outputs_historical_scopes.csv"
OUTPUT_CSV_02 == "outputs/02_processed_results.csv"
INPUT_CSV_XX == "outputs/XX_previous_output.csv"
OUTPUT_CSV_XX == "outputs/XX_your_output.csv"

CsvPaths == {OUTPUT_CSV, INPUT_CSV_02, OUTPUT_CSV_02, INPUT_CSV_XX, OUTPUT_CSV_XX}
Paths == {INPUT_PATH, OUTPUT_DIR} \cup CsvPaths

\* Raw sheet header -> standardized column name.
COLUMN_MAPPING ==
    [h \in {"Fiscal Year - July - June", "Total Cement Production-Tons",
            "Local dispatches (North, South)-Tons", "Total Exports-Tons",
            "Exports (South)-Tons", "Exports (North)-Tons",
            "Coal intensity - (kg coal / ton cement)",
            "Electricity intensity - (kWh / ton cement)", "Clinker ratio-%",
            "Coal parameters: NCV", "Coal parameters: CO2 combustion EF",
            "Coal parameters: Oxidized carbon fraction",
            "Calcination emission factor - (tCO2 / ton clinker)",
            "Grid electricity EF - (kgCO2 / kWh)",
            "Truck capcity Tons- (Allowed Load)", "Truck capcity Tons - (Over Load)",
            "Truck emission factor - Allowed (g CO2 /km)",
            "Truck emission factor - OverLoad (g CO2 /km)",
            "Local Transport distances - (km)",
            "North Export Transport distances - (km)",
            "South Export Transport distances- (km)"} |->
     CASE h = "Fiscal Year - July - June" -> "year"
       [] h = "Total Cement Production-Tons" -> "cement_t"
       [] h = "Local dispatches (North, South)-Tons" -> "local_t"
       [] h = "Total Exports-Tons" -> "total_exp_t"
       [] h = "Exports (South)-Tons" -> "exp_s_t"
       [] h = "Exports (North)-Tons" -> "exp_n_t"
       [] h = "Coal intensity - (kg coal / ton cement)" -> "coal_int_kgpt"
       [] h = "Electricity intensity - (kWh / ton cement)" -> "elec_int_kwhpt"
       [] h = "Clinker ratio-%" -> "clinker_ratio"
       [] h = "Coal parameters: NCV" -> "ncv"
       [] h = "Coal parameters: CO2 combustion EF" -> "co2_ef_tco2_per_tj"
       [] h = "Coal parameters: Oxidized carbon fraction" -> "oxid_frac"
       [] h = "Calcination emission factor - (tCO2 / ton clinker)" -> "calc_ef"
       [] h = "Grid electricity EF - (kgCO2 / kWh)" -> "grid_ef_kg_per_kwh"
       [] h = "Truck capcity Tons- (Allowed Load)" -> "cap_allowed_t"
       [] h = "Truck capcity Tons - (Over Load)" -> "cap_over_t"
       [] h = "Truck emission factor - Allowed (g CO2 /km)" -> "ef_allowed_gpkm"
       [] h = "Truck emission factor - OverLoad (g CO2 /km)" -> "ef_over_gpkm"
       [] h = "Local Transport distances - (km)" -> "dist_local_km"
       [] h = "North Export Transport distances - (km)" -> "dist_exp_n_km"
       [] h = "South Export Transport distances- (km)" -> "dist_exp_s_km"]

output_columns ==
    <<"year", "cement_t", "local_t", "exp_n_t", "exp_s_t", "total_exp_t",
      "scope1a_combustion_tco2", "scope1b_calcination_tco2", "scope1_total_tco2",
      "scope2_electricity_tco2", "scope3_local_tco2", "scope3_exp_n_tco2",
      "scope3_exp_s_tco2", "scope3_total_tco2", "total_emissions_tco2">>

----------------------------------------------------------------------------
\* Tables: a file or a DataFrame is a header (column order) and rows, each row
\* a function from the column names to cell values.

Absent == [exists |-> FALSE, columns |-> <<>>, rows |-> <<>>]
Directory == [exists |-> TRUE, columns |-> <<>>, rows |-> <<>>]
Table(columns, rows) == [exists |-> TRUE, columns |-> columns, rows |-> rows]
NoFrame == [columns |-> <<>>, rows |-> <<>>]

HasColumns(d, cs) == cs \subseteq Range(d.columns)
HasText(d, cs) == \E i \in DOMAIN d.rows : \E c \in cs : IsText(d.rows[i][c])

\* df[name] = values, one per row: the column is appended when new,
\* overwritten in place when it exists.
Assign(d, name, values) ==
    [columns |-> IF name \in Range(d.columns) THEN d.columns
                 ELSE Append(d.columns, name),
     rows |-> [i \in DOMAIN d.rows |->
                 [c \in Range(d.columns) \cup {name} |->
                    IF c = name THEN values[i] ELSE d.rows[i][c]]]]

----------------------------------------------------------------------------
\* 01_historical_scopes.py, STEP 2 and STEP 3: load the sheet, rename columns.

ReadExcel(file) == [columns |-> file.columns, rows |-> file.rows]

Renamed(h) == IF h \in DOMAIN COLUMN_MAPPING THEN COLUMN_MAPPING[h] ELSE h

RenameColumns(d) ==
    LET new == [i \in DOMAIN d.columns |-> Renamed(d.columns[i])]
        old(c) == CHOOSE h \in Range(d.columns) : Renamed(h) = c
    IN  [columns |-> new,
         rows |-> [i \in DOMAIN d.rows |-> [c \in Range(new) |-> d.rows[i][old(c)]]]]

\* STEP 4: missing-value report and clinker_ratio percentage detection.
HasMissing(d) ==
    \E i \in DOMAIN d.rows : \E c \in Range(d.columns) : IsNaN(d.rows[i][c])

\* Series.max() skips NaN; it is NaN when nothing is left.
ColumnMax(d, c) ==
    LET vals == {d.rows[i][c] : i \in DOMAIN d.rows} \ {NaN}
    IN  IF vals = {} THEN NaN
        ELSE CHOOSE m \in vals : \A v \in vals : ~Gt(v, m)

PercentThreshold == Frac(15, 10)

IsPercent(d) == Gt(ColumnMax(d, "clinker_ratio"), PercentThreshold)

ToDecimal(r) == Div(r["clinker_ratio"], Num(100))

NormalizeClinker(d) ==
    IF IsPercent(d) THEN Assign(d, "clinker_ratio", [i \in DOMAIN d.rows |-> ToDecimal(d.rows[i])]) ELSE d

\* The combustion formula with / 1000 for / 1e6.
Scope1a_Per1000(r) ==
    Div(Mul(Mul(Mul(Mul(r["coal_int_kgpt"], r["cement_t"]), r["ncv"]),
                r["co2_ef_tco2_per_tj"]), r["oxid_frac"]),
        Num(1000))

\* STEP 5: Scope 1.
Scope1a(r) ==
    Div(Mul(Mul(Mul(Mul(r["coal_int_kgpt"], r["cement_t"]), r["ncv"]),
                r["co2_ef_tco2_per_tj"]), r["oxid_frac"]),
        Num(1000000))

ClinkerT(r) == Mul(r["cement_t"], r["clinker_ratio"])
Scope1bClinker(r) == Mul(r["clinker_t"], r["calc_ef"])
Scope1bCement(r) == Mul(r["cement_t"], r["calc_ef"])
Scope1Total(r) == Add(r["scope1a_combustion_tco2"], r["scope1b_calcination_tco2"])

Step5(d) ==
    LET d1 == Assign(d, "scope1a_combustion_tco2",
                     [i \in DOMAIN d.rows |-> Scope1a(d.rows[i])])
        d2 == Assign(d1, "clinker_t", [i \in DOMAIN d.rows |-> ClinkerT(d1.rows[i])])
        d3 == IF CALC_EF_IS_PER_CLINKER
              THEN Assign(d2, "scope1b_calcination_tco2",
                          [i \in DOMAIN d.rows |-> Scope1bClinker(d2.rows[i])])
              ELSE Assign(d1, "scope1b_calcination_tco2",
                          [i \in DOMAIN d.rows |-> Scope1bCement(d1.rows[i])])
    IN  Assign(d3, "scope1_total_tco2",
               [i \in DOMAIN d.rows |-> Scope1Total(d3.rows[i])])

\* STEP 6: Scope 2.
\* Scope 2 with the production factor left out.
Scope2_NoCement(r) ==
    Div(Mul(r["elec_int_kwhpt"], r["grid_ef_kg_per_kwh"]), Num(1000))

Scope2(r) ==
    Div(Mul(Mul(r["elec_int_kwhpt"], r["cement_t"]), r["grid_ef_kg_per_kwh"]),
        Num(1000))

Step6(d) ==
    Assign(d, "scope2_electricity_tco2", [i \in DOMAIN d.rows |-> Scope2(d.rows[i])])

\* STEP 7: Scope 3, one leg: trips, kg per loading regime, weighted tonnes.
Trips(r, tonnage, capacity) == Div(r[tonnage], r[capacity])
\* The leg's kilograms with the distance left out.
LegKg_NoDistance(r, trips, dist, ef) == Mul(r[trips], r[ef])

LegKg(r, trips, dist, ef) == Mul(Mul(r[trips], r[dist]), r[ef])
\* The weighted sum with a minus for the plus.
LegTco2_Minus(r, kgAllowed, kgOver) ==
    Div(Add(Mul(ALLOWED_FRAC, r[kgAllowed]),
            Mul(Num(-1), Mul(OVERLOAD_FRAC, r[kgOver]))),
        Num(1000000))

LegTco2(r, kgAllowed, kgOver) ==
    Div(Add(Mul(ALLOWED_FRAC, r[kgAllowed]), Mul(OVERLOAD_FRAC, r[kgOver])),
        Num(1000000))

Leg(d, tonnage, dist, tripsA, tripsO, kgA, kgO, out) ==
    LET d1 == Assign(d, tripsA,
                     [i \in DOMAIN d.rows |-> Trips(d.rows[i], tonnage, "cap_allowed_t")])
        d2 == Assign(d1, tripsO,
                     [i \in DOMAIN d.rows |-> Trips(d1.rows[i], tonnage, "cap_over_t")])
        d3 == Assign(d2, kgA,
                     [i \in DOMAIN d.rows |->
                        LegKg(d2.rows[i], tripsA, dist, "ef_allowed_gpkm")])
        d4 == Assign(d3, kgO,
                     [i \in DOMAIN d.rows |->
                        LegKg(d3.rows[i], tripsO, dist, "ef_over_gpkm")])
    IN  Assign(d4, out, [i \in DOMAIN d.rows |-> LegTco2(d4.rows[i], kgA, kgO)])

Scope3Total(r) ==
    Add(Add(r["scope3_local_tco2"], r["scope3_exp_n_tco2"]), r["scope3_exp_s_tco2"])

Step7(d) ==
    LET l == Leg(d, "local_t", "dist_local_km", "trips_local_allowed",
                 "trips_local_over", "scope3_local_allowed_kgco2",
                 "scope3_local_over_kgco2", "scope3_local_tco2")
        n == Leg(l, "exp_n_t", "dist_exp_n_km", "trips_exp_n_allowed",
                 "trips_exp_n_over", "scope3_exp_n_allowed_kgco2",
                 "scope3_exp_n_over_kgco2", "scope3_exp_n_tco2")
        s == Leg(n, "exp_s_t", "dist_exp_s_km", "trips_exp_s_allowed",
                 "trips_exp_s_over", "scope3_exp_s_allowed_kgco2",
                 "scope3_exp_s_over_kgco2", "scope3_exp_s_tco2")
    IN  Assign(s, "scope3_total_tco2", [i \in DOMAIN d.rows |-> Scope3Total(s.rows[i])])

\* STEP 8: total.
\* The total with Scope 2 left out.
TotalEmissions_NoScope2(r) ==
    Add(r["scope1_total_tco2"], r["scope3_total_tco2"])

TotalEmissions(r) ==
    Add(Add(r["scope1_total_tco2"], r["scope2_electricity_tco2"]),
        r["scope3_total_tco2"])

Step8(d) ==
    Assign(d, "total_emissions_tco2", [i \in DOMAIN d.rows |-> TotalEmissions(d.rows[i])])

\* STEP 9: df[output_columns].to_csv(OUTPUT_CSV, index=False).  Numbers are
\* written in round-trip form, NaN as an empty cell, so a cell reads back as
\* the value written.
\* The selection followed by dropna(): rows with a missing cell are dropped.
SelectColumns_DropNa(d, cs) ==
    [columns |-> cs,
     rows |-> SelectSeq([i \in DOMAIN d.rows |-> [c \in Range(cs) |-> d.rows[i][c]]],
                        LAMBDA r : \A c \in Range(cs) : ~IsNaN(r[c]))]

SelectColumns(d, cs) ==
    [columns |-> cs,
     rows |-> [i \in DOMAIN d.rows |-> [c \in Range(cs) |-> d.rows[i][c]]]]

ToCsv(d) == Table(d.columns, d.rows)
ReadCsv(file) == [columns |-> file.columns, rows |-> file.rows]

\* Columns each step reads, and the exception the step raises on the frame:
\* a missing column is a KeyError, a text cell in arithmetic a TypeError.
Step4Columns == {"clinker_ratio", "year", "cement_t"}
Step5Columns ==
    {"coal_int_kgpt", "cement_t", "ncv", "co2_ef_tco2_per_tj", "oxid_frac",
     "clinker_ratio", "calc_ef"}
Step6Columns == {"elec_int_kwhpt", "cement_t", "grid_ef_kg_per_kwh"}
Step7Columns ==
    {"local_t", "exp_n_t", "exp_s_t", "cap_allowed_t", "cap_over_t",
     "dist_local_km", "dist_exp_n_km", "dist_exp_s_km", "ef_allowed_gpkm",
     "ef_over_gpkm"}
Step8Columns == {"scope1_total_tco2", "scope2_electricity_tco2", "scope3_total_tco2"}

Raises(d, cs, arith) ==
    IF ~HasColumns(d, cs) THEN "KeyError"
    ELSE IF HasText(d, arith) THEN "TypeError"
    ELSE "none"

\* The calculation of STEP 4 to STEP 8 on a frame no step rejects.
Calculate(d) == Step8(Step7(Step6(Step5(NormalizeClinker(d)))))

----------------------------------------------------------------------------
\* Input sheets the runs start from.

BaseRow ==
    [year |-> Num(2020), cement_t |-> Num(1000), local_t |-> Num(600),
     total_exp_t |-> Num(400), exp_s_t |-> Num(100), exp_n_t |-> Num(300),
     coal_int_kgpt |-> Num(100), elec_int_kwhpt |-> Num(80),
     clinker_ratio |-> Frac(7, 10), ncv |-> Frac(1, 40),
     co2_ef_tco2_per_tj |-> Frac(473, 5), oxid_frac |-> Frac(49, 50),
     calc_ef |-> Frac(1, 2), grid_ef_kg_per_kwh |-> Frac(1, 2),
     cap_allowed_t |-> Num(20), cap_over_t |-> Num(25),
     ef_allowed_gpkm |-> Num(900), ef_over_gpkm |-> Num(1000),
     dist_local_km |-> Num(50), dist_exp_n_km |-> Num(200),
     dist_exp_s_km |-> Num(100)]

\* Kinds of yearly record: a valid one, a percentage clinker ratio, a missing
\* cell, zero capacities, zero tonnage and coal, a negative factor, a text cell.
RowVariants ==
    {BaseRow,
     [BaseRow EXCEPT !.clinker_ratio = Num(70)],
     [BaseRow EXCEPT !.grid_ef_kg_per_kwh = NaN],
     [BaseRow EXCEPT !.cap_allowed_t = Num(0)],
     [BaseRow EXCEPT !.cap_over_t = Num(0), !.local_t = Num(0),
                     !.exp_n_t = Num(0), !.exp_s_t = Num(0), !.total_exp_t = Num(0)],
     [BaseRow EXCEPT !.coal_int_kgpt = Num(0), !.local_t = Num(0),
                     !.exp_n_t = Num(0), !.exp_s_t = Num(0), !.total_exp_t = Num(0)],
     [BaseRow EXCEPT !.calc_ef = Frac(-1, 2)],
     [BaseRow EXCEPT !.cap_over_t = Text]}

FullHeader ==
    <<"Fiscal Year - July - June", "Total Cement Production-Tons",
      "Local dispatches (North, South)-Tons", "Total Exports-Tons",
      "Exports (South)-Tons", "Exports (North)-Tons",
      "Coal intensity - (kg coal / ton cement)",
      "Electricity intensity - (kWh / ton cement)", "Clinker ratio-%",
      "Coal parameters: NCV", "Coal parameters: CO2 combustion EF",
      "Coal parameters: Oxidized carbon fraction",
      "Calcination emission factor - (tCO2 / ton clinker)",
      "Grid electricity EF - (kgCO2 / kWh)",
      "Truck capcity Tons- (Allowed Load)", "Truck capcity Tons - (Over Load)",
      "Truck emission factor - Allowed (g CO2 /km)",
      "Truck emission factor - OverLoad (g CO2 /km)",
      "Local Transport distances - (km)",
      "North Export Transport distances - (km)",
      "South Export Transport distances- (km)">>

Without(header, h) == SelectSeq(header, LAMBDA x : x # h)

\* The full sheet, and sheets lacking a column (read in STEP 6, in STEP 9).
Headers ==
    {FullHeader,
     Without(FullHeader, "Grid electricity EF - (kgCO2 / kWh)"),
     Without(FullHeader, "Total Exports-Tons")}

Perms(n) == {p \in [1..n -> 1..n] : \A i, j \in 1..n : p[i] = p[j] => i = j}

SheetRow(r, header) == [h \in Range(header) |-> r[COLUMN_MAPPING[h]]]

\* A sheet: rows of any kinds, distinct years in any order.
Sheet(header, kinds, years) ==
    Table(header,
          [i \in DOMAIN kinds |->
             SheetRow([kinds[i] EXCEPT !.year = Num(2020 + years[i])], header)])

Sheets ==
    UNION {{Sheet(h, k, y) : h \in Headers, k \in [1..n -> RowVariants], y \in Perms(n)}
           : n \in 1..MaxRows}

\* What a call of Calculate needs: the frame after STEP 2 and STEP 3.
Frame(file) == RenameColumns(ReadExcel(file))

\* An output left by an earlier run on an older sheet.
OlderOutput ==
    ToCsv(SelectColumns(Calculate(Frame(Sheet(FullHeader, <<BaseRow>>, <<-1>>))),
                        output_columns))

NoFiles == [p \in Paths |-> Absent]

\* The outputs directory at the start: not there; holding an older output of
\* script 01; holding the files the downstream scripts read.
OutputDirs ==
    {NoFiles,
     [NoFiles EXCEPT ![OUTPUT_DIR] = Directory, ![OUTPUT_CSV] = OlderOutput],
     [NoFiles EXCEPT ![OUTPUT_DIR] = Directory, ![INPUT_CSV_02] = OlderOutput,
                     ![INPUT_CSV_XX] = OlderOutput]}

Init ==
    /\ \E o \in OutputDirs, x \in {Absent} \cup Sheets : fs = [o EXCEPT ![INPUT_PATH] = x]
    /\ script = "none"
    /\ pc = "idle"
    /\ df = NoFrame
    /\ console = {}
    /\ err = "none"
    /\ written = {}

\* Records of a plant of a million tons a year: the combustion example (coal
\* 100 kg/t, NCV 0.025, EF 94.6, oxidation 0.98) and the local transport
\* example (500,000 t over 50 km, trucks of 20 t and 25 t, both factors 900).
CombustionExample == [BaseRow EXCEPT !.cement_t = Num(1000000)]
TransportExample == [BaseRow EXCEPT !.local_t = Num(500000), !.ef_over_gpkm = Num(900)]
ExampleRows == {BaseRow, CombustionExample, TransportExample}

ExampleSheets ==
    UNION {{Sheet(h, k, y) : h \in Headers, k \in [1..n -> ExampleRows], y \in Perms(n)}
           : n \in 1..MaxRows}

InitExamples ==
    /\ \E o \in OutputDirs, x \in {Absent} \cup ExampleSheets :
           fs = [o EXCEPT ![INPUT_PATH] = x]
    /\ script = "none"
    /\ pc = "idle"
    /\ df = NoFrame
    /\ console = {}
    /\ err = "none"
    /\ written = {}

----------------------------------------------------------------------------
\* A run starts when no script is running; scripts run one at a time.

Scripts == {"01", "02", "XX"}

Start(s) ==
    /\ pc \in {"idle", "done", "failed"}
    /\ script' = s
    /\ pc' = "step1"
    /\ df' = NoFrame
    /\ console' = {}
    /\ err' = "none"
    /\ written' = {}
    /\ UNCHANGED fs

\* The step ends the run with an uncaught exception.
Fail(e) ==
    /\ pc' = "failed"
    /\ err' = e

\* 01_historical_scopes.py

\* STEP 1: pd.ExcelFile(INPUT_PATH) raises FileNotFoundError on a missing file.
S01_Step1 ==
    /\ script = "01" /\ pc = "step1"
    /\ IF fs[INPUT_PATH].exists
       THEN pc' = "step2" /\ UNCHANGED err
       ELSE Fail("FileNotFoundError")
    /\ UNCHANGED <<fs, script, df, console, written>>

S01_Step2 ==
    /\ script = "01" /\ pc = "step2"
    /\ df' = ReadExcel(fs[INPUT_PATH])
    /\ pc' = "step3"
    /\ UNCHANGED <<fs, script, console, err, written>>

S01_Step3 ==
    /\ script = "01" /\ pc = "step3"
    /\ df' = RenameColumns(df)
    /\ pc' = "step4"
    /\ UNCHANGED <<fs, script, console, err, written>>

S01_Step4 ==
    /\ script = "01" /\ pc = "step4"
    /\ LET e == Raises(df, Step4Columns, {"clinker_ratio", "cement_t"})
       IN  IF e = "none"
           THEN /\ df' = NormalizeClinker(df)
                /\ console' = console
                      \cup (IF HasMissing(df) THEN {"Warning: Missing values found"}
                            ELSE {"No missing values detected"})
                      \cup (IF IsPercent(df)
                            THEN {"Converting clinker_ratio from percentage to decimal"}
                            ELSE {})
                /\ pc' = "step5"
                /\ UNCHANGED err
           ELSE Fail(e) /\ console' = console
                   \cup (IF HasMissing(df) THEN {"Warning: Missing values found"}
                         ELSE {"No missing values detected"})
                /\ UNCHANGED df
    /\ UNCHANGED <<fs, script, written>>

\* A calculation step: the columns are assigned, or the exception ends the run.
CalcStep(at, cs, result, next) ==
    /\ script = "01" /\ pc = at
    /\ LET e == Raises(df, cs, cs)
       IN  IF e = "none"
           THEN df' = result /\ pc' = next /\ UNCHANGED err
           ELSE Fail(e) /\ UNCHANGED df
    /\ UNCHANGED <<fs, script, console, written>>

S01_Step5 == CalcStep("step5", Step5Columns, Step5(df), "step6")
S01_Step6 == CalcStep("step6", Step6Columns, Step6(df), "step7")
S01_Step7 == CalcStep("step7", Step7Columns, Step7(df), "step8")
\* STEP 8 writing the CSV itself, before STEP 9 selects the output columns.
S01_Step8_SavesEarly ==
    /\ script = "01" /\ pc = "step8"
    /\ df' = Step8(df)
    /\ fs' = [fs EXCEPT ![OUTPUT_DIR] = Directory, ![OUTPUT_CSV] = ToCsv(df')]
    /\ written' = written \cup {OUTPUT_CSV}
    /\ pc' = "step9"
    /\ UNCHANGED <<script, console, err>>

S01_Step8 == CalcStep("step8", Step8Columns, Step8(df), "step9")

\* STEP 9 writing with to_csv(mode="a"): the rows are appended to the file.
S01_Step9_Appends ==
    /\ script = "01" /\ pc = "step9"
    /\ IF HasColumns(df, Range(output_columns))
       THEN /\ fs' = [fs EXCEPT ![OUTPUT_DIR] = Directory,
                                ![OUTPUT_CSV] =
                                    Table(output_columns,
                                          fs[OUTPUT_CSV].rows
                                              \o SelectColumns(df, output_columns).rows)]
            /\ console' = console \cup {"Saved", "SCRIPT 01 COMPLETE",
                                        "You can now run script 02"}
            /\ written' = written \cup {OUTPUT_CSV}
            /\ pc' = "done"
            /\ UNCHANGED err
       ELSE /\ fs' = [fs EXCEPT ![OUTPUT_DIR] = Directory]
            /\ Fail("KeyError")
            /\ UNCHANGED <<console, written>>
    /\ UNCHANGED <<script, df>>

\* STEP 9: mkdir, then select the output columns (KeyError when one is
\* missing), then write the CSV and report completion.
S01_Step9 ==
    /\ script = "01" /\ pc = "step9"
    /\ IF HasColumns(df, Range(output_columns))
       THEN /\ fs' = [fs EXCEPT ![OUTPUT_DIR] = Directory,
                                ![OUTPUT_CSV] = ToCsv(SelectColumns(df, output_columns))]
            /\ console' = console \cup {"Saved", "SCRIPT 01 COMPLETE",
                                        "You can now run script 02"}
            /\ written' = written \cup {OUTPUT_CSV}
            /\ pc' = "done"
            /\ UNCHANGED err
       ELSE /\ fs' = [fs EXCEPT ![OUTPUT_DIR] = Directory]
            /\ Fail("KeyError")
            /\ UNCHANGED <<console, written>>
    /\ UNCHANGED <<script, df>>

\* 02_example_next_step.py and 00_TEMPLATE.py: the same three steps on their
\* own paths.

InputCsv(s) == IF s = "02" THEN INPUT_CSV_02 ELSE INPUT_CSV_XX
OutputCsv(s) == IF s = "02" THEN OUTPUT_CSV_02 ELSE OUTPUT_CSV_XX
Guidance(s) ==
    IF s = "02" THEN "Please run 01_first_analysis.py first!"
    ELSE "Make sure to run the previous script first!"

\* STEP 1 without the exit(1): read_csv raises on the missing file.
DownstreamStep1_NoExit(s) ==
    /\ script = s /\ pc = "step1"
    /\ IF fs[InputCsv(s)].exists
       THEN /\ df' = ReadCsv(fs[InputCsv(s)])
            /\ pc' = "step2"
            /\ UNCHANGED <<console, err>>
       ELSE /\ console' = console \cup {"ERROR: Input file not found", Guidance(s)}
            /\ Fail("FileNotFoundError")
            /\ UNCHANGED df
    /\ UNCHANGED <<fs, script, written>>

\* STEP 1: exit(1) with guidance when the input is missing, else read it.
DownstreamStep1(s) ==
    /\ script = s /\ pc = "step1"
    /\ IF fs[InputCsv(s)].exists
       THEN /\ df' = ReadCsv(fs[InputCsv(s)])
            /\ pc' = "step2"
            /\ UNCHANGED <<console, err>>
       ELSE /\ console' = console \cup {"ERROR: Input file not found", Guidance(s)}
            /\ Fail("exit(1)")
            /\ UNCHANGED df
    /\ UNCHANGED <<fs, script, written>>

\* STEP 2: processed_df = df.copy(), no processing.
DownstreamStep2(s) ==
    /\ script = s /\ pc = "step2"
    /\ pc' = "step3"
    /\ UNCHANGED <<fs, script, df, console, err, written>>

\* STEP 3: processed_df.to_csv(OUTPUT_CSV, index=False).
DownstreamStep3(s) ==
    /\ script = s /\ pc = "step3"
    /\ fs' = [fs EXCEPT ![OutputCsv(s)] = ToCsv(df)]
    /\ written' = written \cup {OutputCsv(s)}
    /\ console' = console \cup {"Saved", "DONE"}
    /\ pc' = "done"
    /\ UNCHANGED <<script, df, err>>

S02_Step1 == DownstreamStep1("02")
S02_Step2 == DownstreamStep2("02")
S02_Step3 == DownstreamStep3("02")
SXX_Step1 == DownstreamStep1("XX")
SXX_Step2 == DownstreamStep2("XX")
SXX_Step3 == DownstreamStep3("XX")

Next ==
    \/ \E s \in Scripts : Start(s)
    \/ S01_Step1 \/ S01_Step2 \/ S01_Step3 \/ S01_Step4 \/ S01_Step5
    \/ S01_Step6 \/ S01_Step7 \/ S01_Step8 \/ S01_Step9
    \/ S02_Step1 \/ S02_Step2 \/ S02_Step3
    \/ SXX_Step1 \/ SXX_Step2 \/ SXX_Step3

Spec == Init /\ [][Next]_vars

\* The same scripts on sheets of the example records.
SpecExamples == InitExamples /\ [][Next]_vars

----------------------------------------------------------------------------
\* The run of script 01 as a function of the input sheet.

InputFile == fs[INPUT_PATH]
InputRows == Frame(InputFile).rows
Written01 == fs[OUTPUT_CSV].rows
Completed01 == script = "01" /\ pc = "done"

InputColumns == {COLUMN_MAPPING[h] : h \in DOMAIN COLUMN_MAPPING}
ArithmeticColumns == Step5Columns \cup Step6Columns \cup Step7Columns

EmissionColumns ==
    {"scope1a_combustion_tco2", "scope1b_calcination_tco2", "scope1_total_tco2",
     "scope2_electricity_tco2", "scope3_local_tco2", "scope3_exp_n_tco2",
     "scope3_exp_s_tco2", "scope3_total_tco2", "total_emissions_tco2"}

Emissions(r) == [c \in EmissionColumns |-> r[c]]

\* No step of the run raises on this sheet.
RunCompletes(file) ==
    /\ file.exists
    /\ Raises(Frame(file), InputColumns, ArithmeticColumns) = "none"

\* The rows the run writes for this sheet.
RunOutput(file) == SelectColumns(Calculate(Frame(file)), output_columns).rows

\* The step actions and the composed function agree on every completed run.
RunIsCalculate ==
    Completed01 => RunCompletes(InputFile) /\ Written01 = RunOutput(InputFile)

YearHeader == "Fiscal Year - July - June"
ClinkerHeader == "Clinker ratio-%"
CementHeader == "Total Cement Production-Tons"

----------------------------------------------------------------------------
\* C1: the emissions written for year Y depend on that year's record only:
\* every other sheet with the same columns that holds the same record for Y
\* (whatever its other records are) gives the same emissions for Y.
C1_OwnRecordOnly ==
    Completed01 =>
        \A s \in Sheets : \A i \in DOMAIN InputFile.rows : \A j \in DOMAIN s.rows :
            (/\ RunCompletes(s)
             /\ s.columns = InputFile.columns
             /\ s.rows[j] = InputFile.rows[i])
            => Emissions(RunOutput(s)[j]) = Emissions(Written01[i])

\* C2: a record with clinker_ratio 70 gets the scope1b and the total of the
\* same record with clinker_ratio 0.70, all other records unchanged.
C2_SeventyIsSevenTenths ==
    Completed01 =>
        \A i \in DOMAIN InputFile.rows :
            InputFile.rows[i][ClinkerHeader] = Num(70) =>
                LET s == [InputFile EXCEPT !.rows[i][ClinkerHeader] = Frac(70, 100)]
                    o == RunOutput(s)[i]
                IN  /\ o["scope1b_calcination_tco2"] = Written01[i]["scope1b_calcination_tco2"]
                    /\ o["total_emissions_tco2"] = Written01[i]["total_emissions_tco2"]

\* C3: a run on a sheet with a missing cell never completes the save step: it
\* fails (with MissingFieldError when nothing else is wrong with the sheet),
\* and no written row holds an undefined emissions value.
C3_MissingCellFails ==
    (script = "01" /\ InputFile.exists /\ HasMissing(ReadExcel(InputFile))) =>
        /\ pc # "done"
        /\ (pc = "failed" /\ RunCompletes(InputFile)) => err = "MissingFieldError"
        /\ \A i \in DOMAIN Written01 : \A c \in EmissionColumns : ~IsNaN(Written01[i][c])

ZeroCapacity(file) ==
    \E i \in DOMAIN file.rows :
        \E h \in {"Truck capcity Tons- (Allowed Load)", "Truck capcity Tons - (Over Load)"} :
            file.rows[i][h] = Num(0)

\* C4: a run on a sheet with a zero truck capacity never completes: it fails
\* (with DivisionByZeroError when nothing else is wrong with the sheet), and
\* writes no infinite or undefined Scope 3 value.
C4_ZeroCapacityFails ==
    (script = "01" /\ InputFile.exists /\ ZeroCapacity(InputFile)) =>
        /\ pc # "done"
        /\ (pc = "failed" /\ RunCompletes(InputFile)) => err = "DivisionByZeroError"
        /\ OUTPUT_CSV \in written =>
              \A i \in DOMAIN Written01 : IsFin(Written01[i]["scope3_total_tco2"])

\* C5: a step changes a CSV file only when it is the last step of a run that
\* completes; for script 01 that is STEP 9, after every calculation column has
\* been computed for all rows.  A step that ends a run in failure (missing
\* input file, missing column, bad value) changes no CSV file.
CsvChanged == \E p \in CsvPaths : fs'[p] # fs[p]

C5_AllOrNothing ==
    [][/\ pc' = "failed" => ~CsvChanged
       /\ CsvChanged =>
            /\ pc' = "done"
            /\ script = "01" =>
                 (/\ pc = "step9"
                  /\ HasColumns(df, EmissionColumns)
                  /\ Len(fs'[OUTPUT_CSV].rows) = Len(df.rows)
                  /\ \A p \in CsvPaths \ {OUTPUT_CSV} : fs'[p] = fs[p])]_vars

\* A run that failed in STEP 9, all calculations done, directory made, no CSV.
C5_Witness ==
    /\ script = "01" /\ pc = "failed" /\ err = "KeyError"
    /\ HasColumns(df, EmissionColumns)
    /\ fs[OUTPUT_DIR].exists /\ ~fs[OUTPUT_CSV].exists

InputOf(s) == IF s = "01" THEN INPUT_PATH ELSE InputCsv(s)
OutputOf(s) == IF s = "01" THEN OUTPUT_CSV ELSE OutputCsv(s)
GuidanceReported == \E s \in Scripts : Guidance(s) \in console
RunWithoutInput == script \in Scripts /\ ~fs[InputOf(script)].exists

\* C6 as stated: a script run without its input file ends in failure, has
\* written no output, and has told the operator to run the prerequisite step;
\* for script 01 as for the downstream scripts.
C6_GuidanceForEveryScript ==
    RunWithoutInput =>
        /\ pc \in {"step1", "failed"}
        /\ written = {}
        /\ pc = "failed" => GuidanceReported

\* C6 amended: a downstream script (02, template) run without its input file
\* ends with exit(1), has written no output and has printed the guidance to
\* run the previous script; script 01 run without its input file ends with an
\* uncaught FileNotFoundError, has written no output and prints no guidance.
C6_InputNotFound ==
    RunWithoutInput =>
        /\ pc \in {"step1", "failed"}
        /\ written = {}
        /\ script # "01" => ~fs[OutputOf(script)].exists
        /\ pc = "failed" =>
              IF script = "01"
              THEN err = "FileNotFoundError" /\ ~GuidanceReported
              ELSE err = "exit(1)" /\ Guidance(script) \in console

\* Script 01 failed on the missing sheet; an older output is left as it was.
C6_Witness ==
    /\ RunWithoutInput /\ script = "01" /\ pc = "failed"
    /\ err = "FileNotFoundError"
    /\ fs[OUTPUT_CSV] = OlderOutput

\* C7: in every written row, total = scope1_total + scope2 + scope3_total,
\* scope1_total = scope1a + scope1b, and scope3_total = local + exp_n + exp_s.
C7_SumIdentity ==
    fs[OUTPUT_CSV].exists =>
        \A i \in DOMAIN Written01 :
            LET r == Written01[i]
            IN  /\ r["total_emissions_tco2"] =
                     Add(Add(r["scope1_total_tco2"], r["scope2_electricity_tco2"]),
                         r["scope3_total_tco2"])
                /\ r["scope1_total_tco2"] =
                     Add(r["scope1a_combustion_tco2"], r["scope1b_calcination_tco2"])
                /\ r["scope3_total_tco2"] =
                     Add(Add(r["scope3_local_tco2"], r["scope3_exp_n_tco2"]),
                         r["scope3_exp_s_tco2"])

C7_Witness ==
    /\ Completed01
    /\ \E i \in DOMAIN Written01 :
          /\ IsFin(Written01[i]["total_emissions_tco2"])
          /\ Gt(Written01[i]["scope1_total_tco2"], Num(0))
          /\ Gt(Written01[i]["scope2_electricity_tco2"], Num(0))
          /\ Gt(Written01[i]["scope3_total_tco2"], Num(0))

\* C8: from the end of loading to the save, the frame has one row per input
\* record, the i-th row carrying the i-th record's year; on completion the
\* written table has as many rows as the input and the same years in order.
FrameYear(r) == IF YearHeader \in DOMAIN r THEN r[YearHeader] ELSE r["year"]

C8_OneToOneInOrder ==
    (script = "01" /\ InputFile.exists /\ pc \notin {"step1", "step2"}) =>
        /\ Len(df.rows) = Len(InputFile.rows)
        /\ \A i \in DOMAIN df.rows : FrameYear(df.rows[i]) = InputFile.rows[i][YearHeader]
        /\ pc = "done" =>
              /\ Len(Written01) = Len(InputFile.rows)
              /\ \A i \in DOMAIN Written01 :
                    Written01[i]["year"] = InputFile.rows[i][YearHeader]

\* Two records, the later year first, one with a missing cell, both written.
C8_Witness ==
    /\ Completed01
    /\ Len(Written01) = 2
    /\ Gt(Written01[1]["year"], Written01[2]["year"])
    /\ \E i \in DOMAIN Written01 : IsNaN(Written01[i]["total_emissions_tco2"])

\* C9: a record with all input fields non-negative and both capacities
\* positive gets non-negative values in all nine emissions columns.
NonNegativeRecord(r) ==
    /\ \A h \in DOMAIN r : Ge0(r[h]) /\ IsFin(r[h])
    /\ Gt(r["Truck capcity Tons- (Allowed Load)"], Num(0))
    /\ Gt(r["Truck capcity Tons - (Over Load)"], Num(0))

C9_NonNegative ==
    Completed01 =>
        \A i \in DOMAIN InputFile.rows :
            NonNegativeRecord(InputFile.rows[i]) =>
                \A c \in EmissionColumns : Ge0(Written01[i][c])

\* A non-negative record with positive outputs next to a record with a
\* negative factor and a negative output.
C9_Witness ==
    /\ Completed01
    /\ \E i, j \in DOMAIN InputFile.rows :
          /\ NonNegativeRecord(InputFile.rows[i])
          /\ Gt(Written01[i]["scope3_total_tco2"], Num(0))
          /\ ~NonNegativeRecord(InputFile.rows[j])
          /\ ~Ge0(Written01[j]["scope1b_calcination_tco2"])

\* The sheet with record i's cement_t raised by n, all else unchanged.
MoreCement(i, n) == [InputFile EXCEPT !.rows[i][CementHeader] = Add(@, Num(n))]
Increments == {500, 1000}
Positive(r, hs) == \A h \in hs : Gt(r[h], Num(0))

\* C10 as stated: the larger cement_t gives strictly larger scope1a, scope1b
\* and scope2, for every valid record.
C10_StrictlyMonotone ==
    Completed01 =>
        \A i \in DOMAIN InputFile.rows : \A n \in Increments :
            NonNegativeRecord(InputFile.rows[i]) =>
                LET o == RunOutput(MoreCement(i, n))[i]
                    w == Written01[i]
                IN  /\ Gt(o["scope1a_combustion_tco2"], w["scope1a_combustion_tco2"])
                    /\ Gt(o["scope1b_calcination_tco2"], w["scope1b_calcination_tco2"])
                    /\ Gt(o["scope2_electricity_tco2"], w["scope2_electricity_tco2"])

\* C10 amended: the larger cement_t gives scope1a, scope1b and scope2 that are
\* never smaller, and strictly larger for each output whose other factors are
\* all strictly positive; with a zero factor the output is 0 for both.
C10_Monotone ==
    Completed01 =>
        \A i \in DOMAIN InputFile.rows : \A n \in Increments :
            NonNegativeRecord(InputFile.rows[i]) =>
                LET o == RunOutput(MoreCement(i, n))[i]
                    w == Written01[i]
                    r == InputFile.rows[i]
                    grows(c, hs) ==
                        IF Positive(r, hs) THEN Gt(o[c], w[c])
                        ELSE o[c] = Num(0) /\ w[c] = Num(0)
                IN  /\ grows("scope1a_combustion_tco2",
                             {"Coal intensity - (kg coal / ton cement)",
                              "Coal parameters: NCV", "Coal parameters: CO2 combustion EF",
                              "Coal parameters: Oxidized carbon fraction"})
                    /\ grows("scope1b_calcination_tco2",
                             {ClinkerHeader,
                              "Calcination emission factor - (tCO2 / ton clinker)"})
                    /\ grows("scope2_electricity_tco2",
                             {"Electricity intensity - (kWh / ton cement)",
                              "Grid electricity EF - (kgCO2 / kWh)"})

\* A valid record with coal intensity 0: scope1a is 0, scope2 is positive.
C10_Witness ==
    /\ Completed01
    /\ \E i \in DOMAIN InputFile.rows :
          /\ NonNegativeRecord(InputFile.rows[i])
          /\ InputFile.rows[i]["Coal intensity - (kg coal / ton cement)"] = Num(0)
          /\ Written01[i]["scope1a_combustion_tco2"] = Num(0)
          /\ Gt(Written01[i]["scope2_electricity_tco2"], Num(0))

ZeroTonnage(r) ==
    /\ r["Local dispatches (North, South)-Tons"] = Num(0)
    /\ r["Exports (North)-Tons"] = Num(0)
    /\ r["Exports (South)-Tons"] = Num(0)

\* C11: a record with local_t = exp_n_t = exp_s_t = 0 gets scope3_total_tco2
\* = 0, whatever its distances, emission factors and other fields are.
C11_ZeroTonnageZeroScope3 ==
    Completed01 =>
        \A i \in DOMAIN InputFile.rows :
            ZeroTonnage(InputFile.rows[i]) => Written01[i]["scope3_total_tco2"] = Num(0)

\* The file at OUTPUT_CSV was written by an earlier run of this behaviour
\* (the sheet never changes, so by a run on the identical input).
OwnEarlierOutput == fs[OUTPUT_CSV].exists /\ fs[OUTPUT_CSV] # OlderOutput

\* C12: every completing run of script 01 writes the table determined by the
\* sheet alone, whatever OUTPUT_CSV held before, and leaves the sheet as it
\* was; a run that completes while the output of an earlier run on the same
\* sheet exists leaves that file exactly as it was (same rows, columns, values).
C12_Idempotent ==
    [][(script = "01" /\ pc = "step9" /\ pc' = "done") =>
          /\ fs'[OUTPUT_CSV] = Table(output_columns, RunOutput(InputFile))
          /\ fs'[INPUT_PATH] = fs[INPUT_PATH]
          /\ OwnEarlierOutput => fs'[OUTPUT_CSV] = fs[OUTPUT_CSV]]_vars

\* A second run about to save two rows over the first run's identical output.
C12_Witness ==
    /\ script = "01" /\ pc = "step9"
    /\ OwnEarlierOutput
    /\ Len(df.rows) = 2
    /\ fs[OUTPUT_CSV] = ToCsv(SelectColumns(df, output_columns))

\* The rows of the completed run that were read from the given record
\* (the year aside), paired with what was written for them.
IsRecord(i, r) == [InputRows[i] EXCEPT !["year"] = r.year] = r

\* C13 as stated: the combustion example gives about 231,770 tCO2 (within 1%).
C13_Scope1aExample ==
    Completed01 =>
        \A i \in DOMAIN InputRows :
            IsRecord(i, CombustionExample) =>
                /\ Gt(Written01[i]["scope1a_combustion_tco2"], Num(229452))
                /\ Gt(Num(234088), Written01[i]["scope1a_combustion_tco2"])

\* C13: for cement_t = 1,000,000, coal_int_kgpt = 100, ncv = 0.025,
\* co2_ef_tco2_per_tj = 94.6 and oxid_frac = 0.98 the combustion formula
\* coal_int_kgpt * cement_t * ncv * co2_ef_tco2_per_tj * oxid_frac / 1e6 gives
\* scope1a_combustion_tco2 = 231.77 tCO2.
C13_Scope1aExampleValue ==
    Completed01 =>
        \A i \in DOMAIN InputRows :
            IsRecord(i, CombustionExample) =>
                Written01[i]["scope1a_combustion_tco2"] = Frac(23177, 100)

C13_Witness ==
    /\ Completed01
    /\ \E i \in DOMAIN InputRows :
          /\ IsRecord(i, CombustionExample)
          /\ Written01[i]["scope1a_combustion_tco2"] = Frac(23177, 100)

\* The leg formula, from the record as read.
LegFormula(r, tonnage, dist) ==
    Div(Add(Mul(ALLOWED_FRAC,
                Mul(Mul(Div(r[tonnage], r["cap_allowed_t"]), r[dist]),
                    r["ef_allowed_gpkm"])),
            Mul(OVERLOAD_FRAC,
                Mul(Mul(Div(r[tonnage], r["cap_over_t"]), r[dist]),
                    r["ef_over_gpkm"]))),
        Num(1000000))

\* C14: each written scope3_L is (ALLOWED_FRAC * (T_L / cap_allowed_t) * D_L *
\* ef_allowed_gpkm + OVERLOAD_FRAC * (T_L / cap_over_t) * D_L * ef_over_gpkm)
\* / 1e6 of the leg's own tonnage and distance, with ALLOWED_FRAC = 0.4 and
\* OVERLOAD_FRAC = 0.6; the record with local_t = 500,000, capacities 20 and
\* 25, 50 km and both factors 900 gets scope3_local = 990 tCO2.
C14_LegFormula ==
    Completed01 =>
        /\ ALLOWED_FRAC = Frac(4, 10) /\ OVERLOAD_FRAC = Frac(6, 10)
        /\ \A i \in DOMAIN InputRows :
              LET r == InputRows[i]
                  w == Written01[i]
              IN  /\ w["scope3_local_tco2"] = LegFormula(r, "local_t", "dist_local_km")
                  /\ w["scope3_exp_n_tco2"] = LegFormula(r, "exp_n_t", "dist_exp_n_km")
                  /\ w["scope3_exp_s_tco2"] = LegFormula(r, "exp_s_t", "dist_exp_s_km")
                  /\ IsRecord(i, TransportExample) => w["scope3_local_tco2"] = Num(990)

\* A completed run on the transport example next to a record whose three legs
\* differ in tonnage and distance.
C14_Witness ==
    /\ Completed01
    /\ \E i, j \in DOMAIN InputRows :
          /\ IsRecord(i, TransportExample)
          /\ Written01[i]["scope3_local_tco2"] = Num(990)
          /\ IsRecord(j, BaseRow)
          /\ Written01[j]["scope3_exp_n_tco2"] = LegFormula(BaseRow, "exp_n_t", "dist_exp_n_km")

\* Positions of script 01 from the end of loading (the frame of STEP 3, with
\* the standard field names) to the save step and its completion.
AfterLoading == {"step4", "step5", "step6", "step7", "step8", "step9", "done"}

HoldsReadValue(c) ==
    /\ c \in Range(df.columns)
    /\ \A i \in DOMAIN InputRows : df.rows[i][c] = InputRows[i][c]

\* C15: from the end of loading to the save step every input field of every
\* record, clinker_ratio included, holds the value read from the sheet; the
\* steps only add new columns.
C15_NoInputMutation ==
    (script = "01" /\ pc \in AfterLoading) =>
        /\ DOMAIN df.rows = DOMAIN InputRows
        /\ \A c \in Range(Frame(InputFile).columns) : HoldsReadValue(c)

\* The outputs directory held no file of a downstream script at the start (no
\* script writes the template's input), and script 01 has completed since.
After01OnEmptyDir == ~fs[INPUT_CSV_XX].exists /\ OwnEarlierOutput

\* C16: a run of script 02 after script 01 has completed on an outputs
\* directory that started empty finds its input, does not take the "input
\* file not found" exit, and writes 02_processed_results.csv with the rows of
\* script 01's output.
C16_Chained ==
    (script = "02" /\ pc \in {"done", "failed"} /\ After01OnEmptyDir) =>
        /\ pc = "done"
        /\ "ERROR: Input file not found" \notin console
        /\ fs[OUTPUT_CSV_02].exists
        /\ fs[OUTPUT_CSV_02].rows = fs[OUTPUT_CSV].rows

====
